---- MODULE Spec2Model ----
(***************************************************************************)
(* Model of src/generate_video.py: one run of generate_text_to_video or    *)
(* generate_image_to_video (submission, poll loop, handling of the         *)
(* completed operation's result, writing or downloading the video).        *)
(***************************************************************************)
EXTENDS Integers, Sequences, FiniteSets, TLC

\* ------------------------------------------------------------------------
\* Bounds of the model
\* ------------------------------------------------------------------------
\* longest byte sequence carried by a payload
MaxLen == 3
\* most status fetches the remote job answers "not done" to
MaxPolls == 1
\* longest of the short prompts given to generate_filename
MaxSeed == 3

\* ------------------------------------------------------------------------
\* Python values carried by the result payload.  An attribute is a record
\* [kind, val]: kind "absent" (hasattr is False), "null" (None), "bytes"
\* (val a sequence of 0..255) or "str" (val a sequence of characters).
\* ------------------------------------------------------------------------
AbsentF == [kind |-> "absent", val |-> <<>>]
NullF == [kind |-> "null", val |-> <<>>]
BytesF(b) == [kind |-> "bytes", val |-> b]
StrF(s) == [kind |-> "str", val |-> s]

\* hasattr(obj, name)
HasAttr(f) == f.kind # "absent"
\* Python truth value of an attribute that is present
Truthy(f) == f.kind \in {"bytes", "str"} /\ Len(f.val) > 0
\* `hasattr(o, a) and o.a`
HasNonEmpty(f) == HasAttr(f) /\ Truthy(f)
\* isinstance(x, str)
IsStr(f) == f.kind = "str"

ByteVals == {0, 255}

RECURSIVE SeqsUpTo(_, _)
SeqsUpTo(S, n) ==
  IF n = 0 THEN {<<>>}
  ELSE LET shorter == SeqsUpTo(S, n - 1)
       IN shorter \cup {Append(s, x) : s \in {t \in shorter : Len(t) = n - 1}, x \in S}

ByteSeqs == SeqsUpTo(ByteVals, MaxLen)

\* ------------------------------------------------------------------------
\* base64 (standard alphabet), as base64.b64decode computes it
\* ------------------------------------------------------------------------
B64Alphabet ==
  << "A","B","C","D","E","F","G","H","I","J","K","L","M","N","O","P",
     "Q","R","S","T","U","V","W","X","Y","Z","a","b","c","d","e","f",
     "g","h","i","j","k","l","m","n","o","p","q","r","s","t","u","v",
     "w","x","y","z","0","1","2","3","4","5","6","7","8","9","+","/" >>

\* value of a character in the alphabet, 64 for any other character
B64Value(c) ==
  IF \E i \in 1..64 : B64Alphabet[i] = c
  THEN (CHOOSE i \in 1..64 : B64Alphabet[i] = c) - 1
  ELSE 64

\* base64.b64encode: three bytes to four characters, "=" padding
RECURSIVE B64Encode(_)
B64Encode(b) ==
  IF Len(b) = 0 THEN <<>>
  ELSE IF Len(b) = 1 THEN
    << B64Alphabet[(b[1] \div 4) + 1],
       B64Alphabet[((b[1] % 4) * 16) + 1], "=", "=" >>
  ELSE IF Len(b) = 2 THEN
    << B64Alphabet[(b[1] \div 4) + 1],
       B64Alphabet[((b[1] % 4) * 16 + (b[2] \div 16)) + 1],
       B64Alphabet[((b[2] % 16) * 4) + 1], "=" >>
  ELSE
    << B64Alphabet[(b[1] \div 4) + 1],
       B64Alphabet[((b[1] % 4) * 16 + (b[2] \div 16)) + 1],
       B64Alphabet[((b[2] % 16) * 4 + (b[3] \div 64)) + 1],
       B64Alphabet[(b[3] % 64) + 1] >> \o B64Encode(SubSeq(b, 4, Len(b)))

\* One step of the decoder over the character s[i].  st is
\* [quad_pos, leftchar, pads, out, stop]: characters outside the alphabet
\* are discarded, a complete pad sequence ends the parse.
B64Step(st, c) ==
  IF st.stop THEN st
  ELSE IF c = "=" THEN
    IF st.quad_pos >= 2 /\ st.quad_pos + st.pads + 1 >= 4
    THEN [st EXCEPT !.stop = TRUE, !.quad_pos = 0]
    ELSE IF st.quad_pos >= 2 THEN [st EXCEPT !.pads = @ + 1] ELSE st
  ELSE IF B64Value(c) >= 64 THEN st
  ELSE LET v == B64Value(c) IN
    CASE st.quad_pos = 0 ->
           [st EXCEPT !.quad_pos = 1, !.leftchar = v, !.pads = 0]
      [] st.quad_pos = 1 ->
           [st EXCEPT !.quad_pos = 2, !.pads = 0,
                      !.out = Append(@, (st.leftchar * 4 + (v \div 16)) % 256),
                      !.leftchar = v % 16]
      [] st.quad_pos = 2 ->
           [st EXCEPT !.quad_pos = 3, !.pads = 0,
                      !.out = Append(@, (st.leftchar * 16 + (v \div 4)) % 256),
                      !.leftchar = v % 4]
      [] OTHER ->
           [st EXCEPT !.quad_pos = 0, !.pads = 0,
                      !.out = Append(@, (st.leftchar * 64 + v) % 256),
                      !.leftchar = 0]

\* the decoder run over s[i..]; the state after each character is computed
\* once, as a value
RECURSIVE B64Fold(_, _, _)
B64Fold(st, s, i) ==
  IF i > Len(s) THEN st
  ELSE CHOOSE fin \in {B64Fold(next, s, i + 1) : next \in {B64Step(st, s[i])}} : TRUE

\* b64decode over the text with its "=" characters stripped first
b64decode_PaddingStripped(s) ==
  LET t == SelectSeq(s, LAMBDA c : c # "=")
      fin == B64Fold([quad_pos |-> 0, leftchar |-> 0, pads |-> 0,
                      out |-> <<>>, stop |-> FALSE], t, 1)
  IN IF fin.quad_pos # 0
     THEN [ok |-> FALSE, data |-> <<>>]
     ELSE [ok |-> TRUE, data |-> fin.out]

\* base64.b64decode(s) with the default validate=False:
\* [ok |-> TRUE, data |-> bytes], or ok = FALSE when binascii.Error is raised
\* (a quad left incomplete at the end of the input)
b64decode(s) ==
  LET fin == B64Fold([quad_pos |-> 0, leftchar |-> 0, pads |-> 0,
                      out |-> <<>>, stop |-> FALSE], s, 1)
  IN IF fin.quad_pos # 0
     THEN [ok |-> FALSE, data |-> <<>>]
     ELSE [ok |-> TRUE, data |-> fin.out]

\* ------------------------------------------------------------------------
\* The local file named by generate_filename, and the two ways to fill it
\* ------------------------------------------------------------------------
NoFile == [exists |-> FALSE, data |-> <<>>]
FileWith(b) == [exists |-> TRUE, data |-> b]

\* What the filesystem and the storage service do during one run.
\*   disk     "ok"; "open_fails": open(local_filename, "wb") raises;
\*            "write_fails": f.write raises before a byte reaches the file;
\*            "close_fails": the bytes reach the file, leaving the `with`
\*            block raises
\*   storage  "ok"; "client_fails": storage.Client() raises;
\*            "download_fails": blob.download_to_filename raises
DiskBehaviours == {"ok", "open_fails", "write_fails", "close_fails"}
StorageBehaviours == {"ok", "client_fails", "download_fails"}
Envs == [disk : DiskBehaviours, storage : StorageBehaviours]

\* the bytes of the remote object a download brings
RemoteObject == <<0, 255>>

\* One call of save_video_data or download_video_from_gcs as the log keeps
\* it: the argument, what the call returned, whether it raised, and for a
\* download whether a storage client was created, whether the network was
\* used, and the bucket and blob names parsed from the URI.
Call(op, arg, ret, raised, client, network, bucket, blob, file) ==
  [op |-> op, arg |-> arg, ret |-> ret, raised |-> raised, client |-> client,
   network |-> network, bucket |-> bucket, blob |-> blob, file |-> file]

\* save_video_data(video_data, local_filename): every exception is caught
\* and turned into False.  f.write(None) raises TypeError after the file
\* was created.
save_video_data(video_data, env) ==
  IF env.disk = "open_fails"
  THEN Call("save", video_data, FALSE, FALSE, FALSE, FALSE, <<>>, <<>>, NoFile)
  ELSE IF video_data.kind # "bytes" \/ env.disk = "write_fails"
  THEN Call("save", video_data, FALSE, FALSE, FALSE, FALSE, <<>>, <<>>,
            FileWith(<<>>))
  ELSE IF env.disk = "close_fails"
  THEN Call("save", video_data, FALSE, FALSE, FALSE, FALSE, <<>>, <<>>,
            FileWith(video_data.val))
  ELSE Call("save", video_data, TRUE, FALSE, FALSE, FALSE, <<>>, <<>>,
            FileWith(video_data.val))

GsPrefix == <<"g", "s", ":", "/", "/">>

\* str.startswith
StartsWith(s, p) == Len(s) >= Len(p) /\ SubSeq(s, 1, Len(p)) = p

\* index of the last "/" of s (str.rsplit), 0 when there is none
FirstSlash_Last(s) ==
  IF \E i \in 1..Len(s) : s[i] = "/"
  THEN CHOOSE i \in 1..Len(s) : s[i] = "/" /\ \A j \in (i + 1)..Len(s) : s[j] # "/"
  ELSE 0

\* index of the first "/" of s, 0 when there is none
FirstSlash(s) ==
  IF \E i \in 1..Len(s) : s[i] = "/"
  THEN CHOOSE i \in 1..Len(s) : s[i] = "/" /\ \A j \in 1..(i - 1) : s[j] # "/"
  ELSE 0

\* download_video_from_gcs without its `except Exception`: an invalid URI
\* still returns False, an exception of the parse or of the storage layer
\* reaches the caller
download_video_from_gcs_Uncaught(gcs_uri, env) ==
  IF ~Truthy(gcs_uri)
  THEN Call("download", gcs_uri, FALSE, FALSE, FALSE, FALSE, <<>>, <<>>, NoFile)
  ELSE IF ~StartsWith(gcs_uri.val, GsPrefix)
  THEN Call("download", gcs_uri, FALSE, FALSE, FALSE, FALSE, <<>>, <<>>, NoFile)
  ELSE
    LET path_without_prefix == SubSeq(gcs_uri.val, 6, Len(gcs_uri.val))
        cut == FirstSlash(path_without_prefix)
        bucket_name == SubSeq(path_without_prefix, 1, cut - 1)
        blob_name == SubSeq(path_without_prefix, cut + 1, Len(path_without_prefix))
    IN IF cut = 0
       THEN Call("download", gcs_uri, FALSE, TRUE, FALSE, FALSE, <<>>, <<>>, NoFile)
       ELSE IF env.storage = "client_fails" \/ bucket_name = <<>>
       THEN Call("download", gcs_uri, FALSE, TRUE, TRUE, FALSE,
                 bucket_name, blob_name, NoFile)
       ELSE IF env.storage = "download_fails" \/ blob_name = <<>>
       THEN Call("download", gcs_uri, FALSE, TRUE, TRUE, TRUE,
                 bucket_name, blob_name, NoFile)
       ELSE Call("download", gcs_uri, TRUE, FALSE, TRUE, TRUE,
                 bucket_name, blob_name, FileWith(RemoteObject))

\* download_video_from_gcs(gcs_uri, local_filename): every exception is
\* caught and turned into False.  `a, b = s.split("/", 1)` raises ValueError
\* when s holds no "/".  The storage client is created before the names are
\* used: storage_client.bucket("") raises (the name is validated by its
\* first and last character), and an object with the empty name cannot be
\* fetched.
download_video_from_gcs(gcs_uri, env) ==
  IF ~Truthy(gcs_uri)
  THEN Call("download", gcs_uri, FALSE, FALSE, FALSE, FALSE, <<>>, <<>>, NoFile)
  ELSE IF ~StartsWith(gcs_uri.val, GsPrefix)
  THEN Call("download", gcs_uri, FALSE, FALSE, FALSE, FALSE, <<>>, <<>>, NoFile)
  ELSE
    LET path_without_prefix == SubSeq(gcs_uri.val, 6, Len(gcs_uri.val))
        cut == FirstSlash(path_without_prefix)
        bucket_name == SubSeq(path_without_prefix, 1, cut - 1)
        blob_name == SubSeq(path_without_prefix, cut + 1, Len(path_without_prefix))
    IN IF cut = 0
       THEN Call("download", gcs_uri, FALSE, FALSE, FALSE, FALSE, <<>>, <<>>, NoFile)
       ELSE IF env.storage = "client_fails" \/ bucket_name = <<>>
       THEN Call("download", gcs_uri, FALSE, FALSE, TRUE, FALSE,
                 bucket_name, blob_name, NoFile)
       ELSE IF env.storage = "download_fails" \/ blob_name = <<>>
       THEN Call("download", gcs_uri, FALSE, FALSE, TRUE, TRUE,
                 bucket_name, blob_name, NoFile)
       ELSE Call("download", gcs_uri, TRUE, FALSE, TRUE, TRUE,
                 bucket_name, blob_name, FileWith(RemoteObject))

\* ------------------------------------------------------------------------
\* The result payload of a completed operation
\* ------------------------------------------------------------------------
\* operation.result.generated_videos[0].video
NoVideo == [kind |-> "absent", video_bytes |-> AbsentF, uri |-> AbsentF]
NullVideo == [kind |-> "null", video_bytes |-> AbsentF, uri |-> AbsentF]
Video(vb, u) == [kind |-> "obj", video_bytes |-> vb, uri |-> u]

\* a list attribute: absent, or a list of items
NoList == [kind |-> "absent", items |-> <<>>]
List(xs) == [kind |-> "list", items |-> xs]
\* `hasattr(o, a) and o.a` for a list
NonEmptyList(l) == l.kind = "list" /\ Len(l.items) > 0

Result(gv, vd, vs) == [generated_videos |-> gv, video_data |-> vd, videos |-> vs]
NoResult == Result(NoList, AbsentF, NoList)

UriVals ==
  { <<>>,
    <<"g","s",":","/","/","b","/","k">>,
    <<"g","s",":","/","/","b","/","d","/","k">>,
    <<"g","s",":","/","/","b">>,
    <<"g","s",":","/","/","/","k">>,
    <<"g","s",":","/","/","b","/">>,
    <<"s","3",":","/","/","b","/","k">>,
    <<"b","/","k">> }
UriFields == {AbsentF, NullF} \cup {StrF(u) : u \in UriVals}

\* base64 texts: the encodings of the byte sequences, and each of them with
\* its last character dropped, with "!" in front and with "A" in front
ValidTexts == {B64Encode(b) : b \in ByteSeqs}
Texts ==
  ValidTexts
    \cup {SubSeq(t, 1, Len(t) - 1) : t \in ValidTexts \ {<<>>}}
    \cup {<<"!">> \o t : t \in ValidTexts}
    \cup {<<"A">> \o t : t \in ValidTexts}

VideoDataFields ==
  {AbsentF, NullF} \cup {BytesF(b) : b \in ByteSeqs} \cup {StrF(t) : t \in Texts}
VideoDataFew ==
  {AbsentF, NullF, BytesF(<<0>>), StrF(B64Encode(<<255>>)), StrF(<<"A">>)}

VideoBytesFields ==
  {AbsentF, NullF, BytesF(<<>>), BytesF(<<255, 0>>)}
Videos ==
  {NoVideo, NullVideo} \cup {Video(vb, u) : vb \in VideoBytesFields, u \in UriFields}

\* first generated item: every video sub-object with a few video_data
\* values, and every video_data value where there is no video sub-object
Items ==
  {[video |-> v, video_data |-> vd] : v \in Videos, vd \in VideoDataFew}
    \cup {[video |-> v, video_data |-> vd] :
            v \in {NoVideo, NullVideo}, vd \in VideoDataFields}

Descriptors == {[gcsUri |-> g, uri |-> u] : g \in UriFields, u \in UriFields}
SomeVideos == List(<< [gcsUri |-> StrF(<<"g","s",":","/","/","b","/","k">>),
                        uri |-> AbsentF] >>)

\* The payloads a completed operation may carry, by the shape that decides
\* the handling: a generated item, a top-level video_data, a videos list.
Payloads ==
  {Result(List(<<it>>), other[1], other[2]) :
     it \in Items,
     other \in {<<AbsentF, NoList>>, <<BytesF(<<255>>), NoList>>,
                <<StrF(B64Encode(<<0>>)), SomeVideos>>}}
  \cup
  {Result(gv, vd, vs) :
     gv \in {NoList, List(<<>>)},
     vd \in VideoDataFields \ {AbsentF},
     vs \in {NoList, SomeVideos}}
  \cup
  {Result(gv, AbsentF, vs) :
     gv \in {NoList, List(<<>>)},
     vs \in {NoList, List(<<>>)} \cup {List(<<d>>) : d \in Descriptors}}

\* ------------------------------------------------------------------------
\* Handling of the completed operation
\* ------------------------------------------------------------------------
\* What a run has produced: the value returned ("True", "False", "None" for
\* falling off the end of the function, "raise" while an exception
\* propagates), the branch of the code that decided it, and the calls of
\* save_video_data and download_video_from_gcs in order.
Outcome(ret, branch, calls) == [ret |-> ret, branch |-> branch, calls |-> calls]

\* an exception raised inside a callee propagates through the caller
Returning(c, ret, branch) ==
  IF c.raised THEN Outcome("raise", branch, <<c>>) ELSE Outcome(ret, branch, <<c>>)

\* SaveVideoData with a decode error taken for "nothing to save"
SaveVideoData_DecodeErrorIgnored(video_data, env, branch) ==
  IF IsStr(video_data)
  THEN LET d == b64decode(video_data.val)
       IN IF ~d.ok THEN Outcome("True", branch, <<>>)
          ELSE LET c == save_video_data(BytesF(d.data), env)
               IN Returning(c, IF c.ret THEN "True" ELSE "False", branch)
  ELSE LET c == save_video_data(video_data, env)
       IN Returning(c, IF c.ret THEN "True" ELSE "False", branch)

\* base64.b64decode(video_data) if isinstance(video_data, str) else video_data,
\* then `return save_video_data(video_bytes, local_filename)`
SaveVideoData(video_data, env, branch) ==
  IF IsStr(video_data)
  THEN LET d == b64decode(video_data.val)
       IN IF ~d.ok THEN Outcome("raise", branch, <<>>)
          ELSE LET c == save_video_data(BytesF(d.data), env)
               IN Returning(c, IF c.ret THEN "True" ELSE "False", branch)
  ELSE LET c == save_video_data(video_data, env)
       IN Returning(c, IF c.ret THEN "True" ELSE "False", branch)

\* TextGeneratedVideo with the URI of the video sub-object looked at before
\* its bytes
TextGeneratedVideo_UriFirst(video_info, env) ==
  IF video_info.video.kind = "obj"
  THEN IF HasNonEmpty(video_info.video.uri)
       THEN LET c == download_video_from_gcs(video_info.video.uri, env)
            IN Returning(c, IF c.ret THEN "True" ELSE "True", "video_uri")
       ELSE IF HasNonEmpty(video_info.video.video_bytes)
       THEN LET c == save_video_data(video_info.video.video_bytes, env)
            IN Returning(c, IF c.ret THEN "True" ELSE "True", "video_bytes")
       ELSE Outcome("True", "video_neither", <<>>)
  ELSE IF HasAttr(video_info.video_data)
  THEN SaveVideoData(video_info.video_data, env, "item_video_data")
  ELSE Outcome("None", "item_nothing", <<>>)

\* generate_text_to_video, lines 322-373: the first generated item
TextGeneratedVideo(video_info, env) ==
  IF video_info.video.kind = "obj"
  THEN IF HasNonEmpty(video_info.video.video_bytes)
       THEN LET c == save_video_data(video_info.video.video_bytes, env)
            IN Returning(c, IF c.ret THEN "True" ELSE "True", "video_bytes")
       ELSE IF HasNonEmpty(video_info.video.uri)
       THEN LET c == download_video_from_gcs(video_info.video.uri, env)
            IN Returning(c, IF c.ret THEN "True" ELSE "True", "video_uri")
       ELSE Outcome("True", "video_neither", <<>>)
  ELSE IF HasAttr(video_info.video_data)
  THEN SaveVideoData(video_info.video_data, env, "item_video_data")
  ELSE Outcome("None", "item_nothing", <<>>)

\* generate_text_to_video, lines 386-399: the first entry of result.videos
TextVideosEntry(video_info, env) ==
  IF HasAttr(video_info.gcsUri)
  THEN IF Truthy(video_info.gcsUri)
       THEN LET c == download_video_from_gcs(video_info.gcsUri, env)
            IN Returning(c, IF c.ret THEN "True" ELSE "None", "videos_gcsUri")
       ELSE Outcome("None", "videos_gcsUri", <<>>)
  ELSE IF HasAttr(video_info.uri)
  THEN IF Truthy(video_info.uri)
       THEN LET c == download_video_from_gcs(video_info.uri, env)
            IN Returning(c, IF c.ret THEN "True" ELSE "None", "videos_uri")
       ELSE Outcome("None", "videos_uri", <<>>)
  ELSE Outcome("None", "videos_nothing", <<>>)

\* TextHandleResponse with the top-level video_data looked at before the
\* generated items
TextHandleResponse_TopFirst(operation, env) ==
  IF operation.response
  THEN LET result == operation.result
       IN IF HasAttr(result.video_data)
          THEN SaveVideoData(result.video_data, env, "top_video_data")
          ELSE IF NonEmptyList(result.generated_videos)
          THEN TextGeneratedVideo(result.generated_videos.items[1], env)
          ELSE IF NonEmptyList(result.videos)
          THEN TextVideosEntry(result.videos.items[1], env)
          ELSE Outcome("True", "no_shape", <<>>)
  ELSE Outcome("False", "no_response", <<>>)

\* TextHandleResponse without the test of operation.response
TextHandleResponse_NoResponseCheck(operation, env) ==
  LET result == operation.result
  IN IF NonEmptyList(result.generated_videos)
     THEN TextGeneratedVideo(result.generated_videos.items[1], env)
     ELSE IF HasAttr(result.video_data)
     THEN SaveVideoData(result.video_data, env, "top_video_data")
     ELSE IF NonEmptyList(result.videos)
     THEN TextVideosEntry(result.videos.items[1], env)
     ELSE Outcome("True", "no_shape", <<>>)

\* generate_text_to_video, lines 299-414: `if operation.response: ... else`
TextHandleResponse(operation, env) ==
  IF operation.response
  THEN LET result == operation.result
       IN IF NonEmptyList(result.generated_videos)
          THEN TextGeneratedVideo(result.generated_videos.items[1], env)
          ELSE IF HasAttr(result.video_data)
          THEN SaveVideoData(result.video_data, env, "top_video_data")
          ELSE IF NonEmptyList(result.videos)
          THEN TextVideosEntry(result.videos.items[1], env)
          ELSE Outcome("True", "no_shape", <<>>)
  ELSE Outcome("False", "no_response", <<>>)

\* generate_image_to_video, lines 481-532: the first generated item
ImageGeneratedVideo(video_info, env) ==
  IF video_info.video.kind = "obj"
  THEN IF HasNonEmpty(video_info.video.video_bytes)
       THEN LET c == save_video_data(video_info.video.video_bytes, env)
            IN Returning(c, IF c.ret THEN "True" ELSE "True", "video_bytes")
       ELSE IF HasNonEmpty(video_info.video.uri)
       THEN LET c == download_video_from_gcs(video_info.video.uri, env)
            IN Returning(c, IF c.ret THEN "True" ELSE "True", "video_uri")
       ELSE Outcome("True", "video_neither", <<>>)
  ELSE IF HasAttr(video_info.video_data)
  THEN SaveVideoData(video_info.video_data, env, "item_video_data")
  ELSE Outcome("None", "item_nothing", <<>>)

\* generate_image_to_video, lines 458-552: `if operation.response: ... else`
ImageHandleResponse(operation, env) ==
  IF operation.response
  THEN LET result == operation.result
       IN IF NonEmptyList(result.generated_videos)
          THEN ImageGeneratedVideo(result.generated_videos.items[1], env)
          ELSE IF HasAttr(result.video_data)
          THEN SaveVideoData(result.video_data, env, "top_video_data")
          ELSE Outcome("True", "no_shape", <<>>)
  ELSE Outcome("False", "no_response", <<>>)

\* `except Exception as e: ... return False` around the whole function
ExceptException(o) == IF o.ret = "raise" THEN [o EXCEPT !.ret = "False"] ELSE o

\* the part of the function after the poll loop, inside its try block
AfterLoop(m, operation, env) ==
  ExceptException(IF m = "text" THEN TextHandleResponse(operation, env)
                  ELSE ImageHandleResponse(operation, env))

\* ------------------------------------------------------------------------
\* One run
\* ------------------------------------------------------------------------
VARIABLES
  client,     \* "unset", "ok", "none" (initialize_genai returned None)
  mode,       \* "none", "text" (generate_text_to_video), "image"
  pc,         \* "start", "idle", "loop", "slept", "returned", "exited"
  operation,  \* the operation handle: [done, response, result]
  requests,   \* requests sent to the remote service, in order
  sleeps,     \* calls of time.sleep(15)
  fetches,    \* calls of client.operations.get
  ret,        \* value returned by the function, "none" while it runs
  branch,     \* branch of the code that ended the run
  calls,      \* calls of save_video_data / download_video_from_gcs, in order
  file,       \* the local file
  report,     \* what main prints at its end: "none", "success", "failed",
              \* "interrupted"
  exit,       \* exit status of the process: "none" while it runs, "0", "1"
  seed,       \* generate_filename: the prompt of both calls
  now1,       \* generate_filename: datetime.now() of the first call
  name1,      \* generate_filename: the first filename
  now2,       \* generate_filename: datetime.now() of the second call
  name2,      \* generate_filename: the second filename
  ipc,        \* main: the prompt it is at: "choice", "parameters", "image",
              \* "prompt", "submit", "done"
  choice,     \* get_user_choice(): "none", "1", "2"
  parameters, \* get_generation_parameters()
  image_path, \* get_image_path(): [kind, val], kind "unset", "path", "none"
  text_prompt, \* get_text_prompt(): main's `prompt`
  gcs_bucket, \* os.environ.get("GCS_BUCKET")
  submission  \* the arguments of client.models.generate_videos

runVars ==
  <<client, mode, pc, operation, requests, sleeps, fetches, ret, branch, calls,
    file, report, exit>>
nameVars == <<seed, now1, name1, now2, name2>>
inputVars ==
  <<ipc, choice, parameters, image_path, text_prompt, gcs_bucket, submission>>
vars == <<runVars, nameVars, inputVars>>

Operation(done, response, result) ==
  [done |-> done, response |-> response, result |-> result]

\* what client.models.generate_videos or client.operations.get may hand
\* back: a pending operation, or a finished one with or without a response
Pending == Operation(FALSE, FALSE, NoResult)
Finished ==
  {Operation(TRUE, FALSE, NoResult)} \cup {Operation(TRUE, TRUE, p) : p \in Payloads}

\* no call of generate_filename yet
NoTime == [year |-> 0, month |-> 0, day |-> 0, hour |-> 0, minute |-> 0,
           second |-> 0, microsecond |-> 0, utcoffset |-> 0]
NameInit ==
  /\ seed = <<>>
  /\ now1 = NoTime
  /\ name1 = <<>>
  /\ now2 = NoTime
  /\ name2 = <<>>

RunInit ==
  /\ client = "unset"
  /\ mode = "none"
  /\ pc = "start"
  /\ operation = Pending
  /\ requests = <<>>
  /\ sleeps = 0
  /\ fetches = 0
  /\ ret = "none"
  /\ branch = "none"
  /\ calls = <<>>
  /\ file = NoFile
  /\ report = "none"
  /\ exit = "none"

\* nothing typed yet, nothing submitted
NoParameters ==
  [duration |-> 0, aspect_ratio |-> <<>>, negative_prompt |-> AbsentF,
   enhance_prompt |-> FALSE]
NoImage == [gcs_uri |-> AbsentF, mime_type |-> "none"]
NoSubmission ==
  [model |-> "none", prompt |-> <<>>, image |-> NoImage,
   config |-> [aspect_ratio |-> <<>>, output_gcs_uri |-> AbsentF]]
InputInit ==
  /\ ipc = "choice"
  /\ choice = "none"
  /\ parameters = NoParameters
  /\ image_path = [kind |-> "unset", val |-> <<>>]
  /\ text_prompt = <<>>
  /\ submission = NoSubmission

\* a run whose GCS_BUCKET is not set
Init == RunInit /\ NameInit /\ InputInit /\ gcs_bucket = NullF

\* main, lines 589-598: `if success: ... else: ...`; None is falsy
ReportOf(r) == IF r = "True" THEN "success" ELSE "failed"

\* main without `if not client: sys.exit(1)`
InitializeGenai_NoCheck ==
  /\ pc = "start"
  /\ \E c \in {"ok", "none"} : client' = c
  /\ pc' = "idle"
  /\ UNCHANGED <<mode, operation, requests, sleeps, fetches, ret, branch,
                 calls, file, report, exit>>
  /\ UNCHANGED <<nameVars, inputVars>>

\* main, lines 563-566: initialize_genai() returns a client, or returns None
\* (both except clauses) and main leaves with sys.exit(1)
InitializeGenai ==
  /\ pc = "start"
  /\ \E c \in {"ok", "none"} :
       /\ client' = c
       /\ IF c = "none"
          THEN pc' = "exited" /\ exit' = "1"
          ELSE pc' = "idle" /\ exit' = exit
  /\ UNCHANGED <<mode, operation, requests, sleeps, fetches, ret, branch,
                 calls, file, report>>
  /\ UNCHANGED <<nameVars, inputVars>>

\* the function without its `except Exception`: the exception reaches main,
\* lines 603-605
Fail_Propagates(b) ==
  /\ pc' = "exited"
  /\ ret' = "raise"
  /\ branch' = b
  /\ report' = "unexpected"
  /\ exit' = "1"

\* an exception inside the try block: the function returns False and main
\* prints its failure message
Fail(b) ==
  /\ pc' = "returned"
  /\ ret' = "False"
  /\ branch' = b
  /\ report' = ReportOf("False")
  /\ exit' = "0"

\* a failed submission that is made again
SubmitFails_Retried(m) ==
  /\ pc = "idle"
  /\ Len(requests) < 2
  /\ mode' = m
  /\ requests' = Append(requests, "generate_videos")
  /\ UNCHANGED <<client, pc, operation, sleeps, fetches, ret, branch, calls,
                 file, report, exit>>
  /\ UNCHANGED <<nameVars, inputVars>>

\* client.models.generate_videos(...) raises
SubmitFails(m) ==
  /\ pc = "idle"
  /\ mode' = m
  /\ requests' = Append(requests, "generate_videos")
  /\ Fail("submit_error")
  /\ UNCHANGED <<client, operation, sleeps, fetches, calls, file>>
  /\ UNCHANGED <<nameVars, inputVars>>

\* client.models.generate_videos(...) returns an operation
Submit(m) ==
  /\ pc = "idle"
  /\ mode' = m
  /\ pc' = "loop"
  /\ requests' = Append(requests, "generate_videos")
  /\ operation' \in {Pending} \cup Finished
  /\ UNCHANGED <<client, sleeps, fetches, ret, branch, calls, file, report, exit>>
  /\ UNCHANGED <<nameVars, inputVars>>

\* a loop that sleeps before it tests operation.done
Sleep_DoWhile ==
  /\ pc = "loop"
  /\ fetches <= MaxPolls
  /\ pc' = "slept"
  /\ sleeps' = sleeps + 1
  /\ UNCHANGED <<client, mode, operation, requests, fetches, ret, branch, calls,
                 file, report, exit>>
  /\ UNCHANGED <<nameVars, inputVars>>

\* a loop that stops sleeping and fetching after MaxPolls fetches
Sleep_GivesUp ==
  /\ pc = "loop"
  /\ ~operation.done
  /\ fetches < MaxPolls
  /\ pc' = "slept"
  /\ sleeps' = sleeps + 1
  /\ UNCHANGED <<client, mode, operation, requests, fetches, ret, branch, calls,
                 file, report, exit>>
  /\ UNCHANGED <<nameVars, inputVars>>

\* `while not operation.done: time.sleep(15)`
Sleep ==
  /\ pc = "loop"
  /\ ~operation.done
  /\ pc' = "slept"
  /\ sleeps' = sleeps + 1
  /\ UNCHANGED <<client, mode, operation, requests, fetches, ret, branch, calls,
                 file, report, exit>>
  /\ UNCHANGED <<nameVars, inputVars>>

\* `operation = client.operations.get(operation)` returns; the remote job
\* stays pending for at most MaxPolls fetches
Fetch ==
  /\ pc = "slept"
  /\ fetches' = fetches + 1
  /\ requests' = Append(requests, "get")
  /\ pc' = "loop"
  /\ operation' \in (IF fetches < MaxPolls THEN {Pending} ELSE {}) \cup Finished
  /\ UNCHANGED <<client, mode, sleeps, ret, branch, calls, file, report, exit>>
  /\ UNCHANGED <<nameVars, inputVars>>

\* a failing status fetch that is tried again
FetchFails_Retried ==
  /\ pc = "slept"
  /\ fetches <= MaxPolls
  /\ fetches' = fetches + 1
  /\ requests' = Append(requests, "get")
  /\ pc' = "loop"
  /\ branch' = "poll_error"
  /\ UNCHANGED <<client, mode, operation, sleeps, ret, calls, file, report, exit>>
  /\ UNCHANGED <<nameVars, inputVars>>

\* `client.operations.get(operation)` raises
FetchFails ==
  /\ pc = "slept"
  /\ fetches' = fetches + 1
  /\ requests' = Append(requests, "get")
  /\ Fail("poll_error")
  /\ UNCHANGED <<client, mode, operation, sleeps, calls, file>>
  /\ UNCHANGED <<nameVars, inputVars>>

\* the interrupt caught by the function (a bare `except:`), which returns
\* False
Interrupt_CaughtByFunction ==
  /\ pc \in {"idle", "loop", "slept"}
  /\ ~operation.done
  /\ pc' = "returned"
  /\ branch' = "interrupt"
  /\ ret' = "False"
  /\ report' = ReportOf("False")
  /\ exit' = "0"
  /\ UNCHANGED <<client, mode, operation, requests, sleeps, fetches, calls, file>>
  /\ UNCHANGED <<nameVars, inputVars>>

\* KeyboardInterrupt while the prompts are read or the job is awaited: it is
\* no Exception, so it passes the function's `except Exception` and reaches
\* main, lines 600-602: message, sys.exit(0)
Interrupt ==
  /\ pc \in {"idle", "loop", "slept"}
  /\ ~operation.done
  /\ pc' = "exited"
  /\ branch' = "interrupt"
  /\ report' = "interrupted"
  /\ exit' = "0"
  /\ UNCHANGED <<client, mode, operation, requests, sleeps, fetches, ret, calls,
                 file>>
  /\ UNCHANGED <<nameVars, inputVars>>

\* the loop is left with operation.done: lines 299-418 (text), 458-556
\* (image), then main prints its last message
HandleResponse ==
  /\ pc = "loop"
  /\ operation.done
  /\ \E env \in Envs :
       \E o \in {AfterLoop(mode, operation, env)} :
          /\ ret' = o.ret
          /\ branch' = o.branch
          /\ calls' = o.calls
          /\ file' = IF o.calls = <<>> THEN file ELSE o.calls[Len(o.calls)].file
          /\ report' = ReportOf(o.ret)
  /\ pc' = "returned"
  /\ exit' = "0"
  /\ UNCHANGED <<client, mode, operation, requests, sleeps, fetches>>
  /\ UNCHANGED <<nameVars, inputVars>>

Next ==
  \/ InitializeGenai
  \/ \E m \in {"text", "image"} : SubmitFails(m)
  \/ \E m \in {"text", "image"} : Submit(m)
  \/ Sleep
  \/ Fetch
  \/ FetchFails
  \/ Interrupt
  \/ HandleResponse

Spec == Init /\ [][Next]_vars

\* The function is one thread of straight-line code: a statement that can
\* run does run.  The sleep returns, and the status fetch returns or raises.
\* The code after the loop runs to its return: HandleResponse is enabled
\* exactly when pc = "loop" and operation.done, and every step of it leaves
\* that condition, so its weak fairness is the last conjunct.
SpecLive ==
  /\ Init
  /\ [][Next]_vars
  /\ WF_vars(Sleep)
  /\ WF_vars(Fetch \/ FetchFails)
  /\ []<>~(pc = "loop" /\ operation.done)

\* ------------------------------------------------------------------------
\* generate_filename
\* ------------------------------------------------------------------------
\* `[:30]`
NameLimit == 30

\* str.isalnum, over ASCII: the letters and digits
IsAlnum(c) == \E i \in 1..62 : B64Alphabet[i] = c

\* str.rstrip(): trailing whitespace removed
RECURSIVE RStrip(_)
RStrip(s) ==
  IF Len(s) > 0 /\ s[Len(s)] = " " THEN RStrip(SubSeq(s, 1, Len(s) - 1)) ELSE s

\* str.replace(" ", "_")
ReplaceSpaces(s) == [i \in 1..Len(s) |-> IF s[i] = " " THEN "_" ELSE s[i]]

DigitChars == <<"0", "1", "2", "3", "4", "5", "6", "7", "8", "9">>
IsDigit(c) == \E i \in 1..10 : DigitChars[i] = c

\* n in decimal, zero-padded to w digits
RECURSIVE Digits(_, _)
Digits(n, w) ==
  IF w = 0 THEN <<>> ELSE Append(Digits(n \div 10, w - 1), DigitChars[(n % 10) + 1])

\* datetime.strftime("%Y%m%d_%H%M%S")
strftime(t) ==
  Digits(t.year, 4) \o Digits(t.month, 2) \o Digits(t.day, 2) \o <<"_">>
    \o Digits(t.hour, 2) \o Digits(t.minute, 2) \o Digits(t.second, 2)

\* generate_filename(prompt, extension), with `now` the value of
\* datetime.now()
generate_filename(prompt, extension, now) ==
  LET kept == SelectSeq(prompt, LAMBDA c : IsAlnum(c) \/ c \in {" ", "-", "_"})
      replaced == ReplaceSpaces(RStrip(kept))
      clean_prompt ==
        SubSeq(replaced, 1, IF Len(replaced) < NameLimit THEN Len(replaced)
                            ELSE NameLimit)
  IN clean_prompt \o <<"_">> \o strftime(now) \o <<".">> \o extension

Mp4 == <<"m", "p", "4">>

SeedChars == {"a", " ", "!", "_"}
Repeat(c, n) == [i \in 1..n |-> c]
\* prompts: the short ones, and ones around the limit of 30 characters
Seeds ==
  SeqsUpTo(SeedChars, MaxSeed)
    \cup {Repeat(c, n) \o t :
            c \in {"a", "!"},
            n \in {NameLimit - 1, NameLimit, NameLimit + 1},
            t \in {<<>>, <<" ">>, <<"b", " ", "c">>}}

\* A value of datetime.now(): the naive local date and time.  utcoffset is
\* not part of the value: it is the offset of the local zone, in hours, at
\* the instant of the call, which fixes how much time lies between two calls.
Time(y, mo, d, h, mi, sec, us, off) ==
  [year |-> y, month |-> mo, day |-> d, hour |-> h, minute |-> mi,
   second |-> sec, microsecond |-> us, utcoffset |-> off]
\* values of datetime.now() in a zone that leaves daylight saving time on
\* 2026-11-01 at 02:00 (the hour from 01:00 is read twice), and around the
\* end of a second, a minute, an hour, a day, a month and a year
Times ==
  { Time(2026, 11, 1, 1, 0, 0, 0, 0 - 4),
    Time(2026, 11, 1, 1, 59, 59, 999999, 0 - 4),
    Time(2026, 11, 1, 1, 0, 0, 0, 0 - 5),
    Time(2026, 11, 1, 1, 59, 59, 0, 0 - 5),
    Time(2026, 11, 1, 2, 0, 0, 0, 0 - 5),
    Time(2026, 12, 31, 23, 59, 58, 999999, 0 - 5),
    Time(2026, 12, 31, 23, 59, 59, 0, 0 - 5),
    Time(2026, 12, 31, 23, 59, 59, 999999, 0 - 5),
    Time(2027, 1, 1, 0, 0, 0, 0, 0 - 5),
    Time(2027, 1, 1, 0, 0, 0, 999999, 0 - 5),
    Time(2027, 1, 1, 0, 0, 1, 0, 0 - 5),
    Time(2027, 1, 1, 0, 1, 0, 0, 0 - 5),
    Time(2027, 1, 1, 1, 0, 0, 0, 0 - 5),
    Time(2027, 1, 2, 0, 0, 0, 0, 0 - 5),
    Time(2027, 2, 1, 0, 0, 0, 0, 0 - 5) }

\* whole seconds from 2026-01-01 00:00:00 UTC to the instant of the call
\* that read t (2026 and 2027 have 365 days)
DaysBeforeMonth == <<0, 31, 59, 90, 120, 151, 181, 212, 243, 273, 304, 334>>
SecondsOf(t) ==
  ((((t.year - 2026) * 365 + DaysBeforeMonth[t.month] + (t.day - 1)) * 24
      + t.hour - t.utcoffset) * 60 + t.minute) * 60 + t.second
\* t2 is at least d seconds after t1
SecondsApart(t1, t2, d) ==
  \/ SecondsOf(t2) - SecondsOf(t1) > d
  \/ SecondsOf(t2) - SecondsOf(t1) = d /\ t2.microsecond >= t1.microsecond

NameRunInit ==
  /\ RunInit
  /\ InputInit
  /\ gcs_bucket = NullF
  /\ seed \in Seeds
  /\ now1 = NoTime
  /\ name1 = <<>>
  /\ now2 = NoTime
  /\ name2 = <<>>

\* a first call of generate_filename(seed)
FirstCall ==
  /\ name1 = <<>>
  /\ \E t \in Times :
       /\ now1' = t
       /\ name1' = generate_filename(seed, Mp4, t)
  /\ UNCHANGED <<seed, now2, name2>>
  /\ UNCHANGED <<runVars, inputVars>>

\* a later call of generate_filename(seed)
SecondCall ==
  /\ name1 # <<>>
  /\ name2 = <<>>
  /\ \E t \in Times :
       /\ SecondsApart(now1, t, 0)
       /\ now2' = t
       /\ name2' = generate_filename(seed, Mp4, t)
  /\ UNCHANGED <<seed, now1, name1>>
  /\ UNCHANGED <<runVars, inputVars>>

NameNext == FirstCall \/ SecondCall

SpecFilename == NameRunInit /\ [][NameNext]_vars

\* ------------------------------------------------------------------------
\* main: the prompts, and the submission built from the answers
\* ------------------------------------------------------------------------
\* most lines typed at one prompt that asks again
MaxLines == 2

MODEL_ID == "veo-3.0-generate-preview"

\* str.strip(): blanks removed at both ends
RECURSIVE LStrip(_)
LStrip(s) == IF Len(s) > 0 /\ s[1] = " " THEN LStrip(Tail(s)) ELSE s
strip(s) == LStrip(RStrip(s))

\* str.lower() over the ASCII letters
LowerChar(c) ==
  IF \E i \in 1..26 : B64Alphabet[i] = c
  THEN B64Alphabet[(CHOOSE i \in 1..26 : B64Alphabet[i] = c) + 26]
  ELSE c
lower(s) == [i \in 1..Len(s) |-> LowerChar(s[i])]

\* str.endswith
EndsWith(s, p) == Len(s) >= Len(p) /\ SubSeq(s, Len(s) - Len(p) + 1, Len(s)) = p

\* int(s) of a stripped line: an optional sign and decimal digits, ok = FALSE
\* for ValueError
DigitValue(c) == (CHOOSE i \in 1..10 : DigitChars[i] = c) - 1
RECURSIVE Natural(_)
Natural(s) ==
  IF s = <<>> THEN 0
  ELSE Natural(SubSeq(s, 1, Len(s) - 1)) * 10 + DigitValue(s[Len(s)])
int(s) ==
  LET signed == Len(s) > 0 /\ s[1] \in {"+", "-"}
      body == IF signed THEN Tail(s) ELSE s
  IN IF body = <<>> \/ \E i \in 1..Len(body) : ~IsDigit(body[i])
     THEN [ok |-> FALSE, val |-> 0]
     ELSE [ok |-> TRUE,
           val |-> IF signed /\ s[1] = "-" THEN 0 - Natural(body) ELSE Natural(body)]

\* what a prompt hands back: a value, or EOFError when no line is left
Got(v) == [kind |-> "value", val |-> v]
EndOfInput == [kind |-> "eof", val |-> <<>>]

\* get_user_choice(): asks until the stripped line is "1" or "2"
RECURSIVE get_user_choice(_)
get_user_choice(typed) ==
  IF typed = <<>> THEN EndOfInput
  ELSE IF strip(Head(typed)) \in {<<"1">>, <<"2">>} THEN Got(strip(Head(typed))[1])
  ELSE get_user_choice(Tail(typed))

Landscape == <<"1", "6", ":", "9">>
Portrait == <<"9", ":", "1", "6">>

\* get_generation_parameters(), typed being the four lines it reads
get_generation_parameters(typed) ==
  LET duration == strip(typed[1])
      n == int(duration)
      aspect_ratio == strip(typed[2])
      negative_prompt == strip(typed[3])
      enhance_prompt == lower(strip(typed[4]))
  IN [duration |->
        IF duration = <<>> THEN 5
        ELSE IF ~n.ok THEN 5
        ELSE IF n.val < 5 \/ n.val > 8 THEN 5
        ELSE n.val,
      aspect_ratio |->
        IF aspect_ratio \notin {Landscape, Portrait} THEN Landscape
        ELSE aspect_ratio,
      negative_prompt |->
        IF negative_prompt # <<>> THEN StrF(negative_prompt) ELSE NullF,
      enhance_prompt |-> enhance_prompt # <<"n">>]

\* the paths for which os.path.exists is true: three files and a directory
Existing ==
  { <<"a", ".", "p", "n", "g">>, <<"A", ".", "P", "N", "G">>, <<"b", ".", "j", "p", "g">>, <<"d">> }

\* the `while not os.path.exists(image_path)` loop of get_image_path, rest
\* being the lines not yet read
RECURSIVE AskAgain(_, _)
AskAgain(path, rest) ==
  IF path \in Existing THEN [kind |-> "path", val |-> path]
  ELSE IF rest = <<>> THEN EndOfInput
  ELSE IF strip(Head(rest)) = <<>> THEN [kind |-> "none", val |-> <<>>]
  ELSE AskAgain(strip(Head(rest)), Tail(rest))

\* get_image_path that hands back the first line without looking for the
\* file
get_image_path_Unchecked(typed) ==
  IF typed = <<>> THEN EndOfInput
  ELSE [kind |-> "path", val |-> strip(Head(typed))]

\* get_image_path(): a path that exists, None after an empty line, or
\* EOFError
get_image_path(typed) ==
  IF typed = <<>> THEN EndOfInput ELSE AskAgain(strip(Head(typed)), Tail(typed))

\* get_text_prompt(): the text of the file named on the command line (as it
\* is, not stripped) or the first line typed; then it asks until the prompt
\* is not empty
RECURSIVE AskPrompt(_)
AskPrompt(typed) ==
  IF typed = <<>> THEN EndOfInput
  ELSE IF strip(Head(typed)) # <<>> THEN Got(strip(Head(typed)))
  ELSE AskPrompt(Tail(typed))
get_text_prompt(argv_file, typed) ==
  IF IsStr(argv_file)
  THEN IF argv_file.val # <<>> THEN Got(argv_file.val) ELSE AskPrompt(typed)
  ELSE AskPrompt(typed)

\* `output_gcs_uri = None; if os.environ.get("GCS_BUCKET"): ...`
OutputGcsUri(bucket) ==
  IF Truthy(bucket)
  THEN StrF(GsPrefix \o bucket.val \o <<"/", "v", "i", "d", "e", "o", "s", "/">>)
  ELSE NullF

\* the arguments of client.models.generate_videos in generate_text_to_video
TextSubmission(p, params, bucket) ==
  [model |-> MODEL_ID,
   prompt |-> p,
   image |-> NoImage,
   config |-> [aspect_ratio |-> params.aspect_ratio,
               output_gcs_uri |-> OutputGcsUri(bucket)]]

\* ... and in generate_image_to_video
ImageSubmission(path, p, params, bucket) ==
  [model |-> MODEL_ID,
   prompt |-> p,
   image |-> [gcs_uri |-> NullF,
              mime_type |-> IF EndsWith(lower(path), <<".", "p", "n", "g">>)
                            THEN "image/png" ELSE "image/jpeg"],
   config |-> [aspect_ratio |-> params.aspect_ratio,
               output_gcs_uri |-> OutputGcsUri(bucket)]]

\* main, lines 579-587
SubmissionOf(c, path, p, params, bucket) ==
  IF c = "1" THEN TextSubmission(p, params, bucket)
  ELSE ImageSubmission(path, p, params, bucket)

\* the lines a user types
ChoiceLines == {<<"1">>, <<"2">>, <<"3">>, <<" ", "2">>}
DurationLines == {<<>>, <<"5">>, <<"8">>, <<"9">>, <<"x">>, <<" ", "7">>, <<"-", "6">>}
AspectLines == {<<>>, Landscape, Portrait, <<"4", ":", "3">>}
NegativeLines == {<<>>, <<" ">>, <<"f", "o", "g">>}
EnhanceLines == {<<>>, <<"n">>, <<"N">>, <<"y">>}
PathLines ==
  {<<>>, <<"a", ".", "p", "n", "g">>, <<" ">> \o <<"a", ".", "p", "n", "g">> \o <<" ">>, <<"A", ".", "P", "N", "G">>, <<"b", ".", "j", "p", "g">>, <<"d">>, <<"x", ".", "p", "n", "g">>}
PromptLines == {<<>>, <<"p">>, <<" ", "q", " ">>}
ArgvFiles == {NullF, StrF(<<>>), StrF(<<"p", " ">>)}
Buckets == {NullF, StrF(<<>>), StrF(<<"b">>)}

RequestInit ==
  /\ RunInit
  /\ NameInit
  /\ InputInit
  /\ gcs_bucket \in Buckets

\* main leaves: sys.exit(1) at line 583, or lines 603-605 after an exception
Leave(r) ==
  /\ pc' = "exited"
  /\ exit' = "1"
  /\ report' = r
  /\ ipc' = "done"
  /\ UNCHANGED <<client, mode, operation, requests, sleeps, fetches, ret, branch,
                 calls, file>>
  /\ UNCHANGED nameVars

\* `choice = get_user_choice()`
GetUserChoice ==
  /\ pc = "idle"
  /\ ipc = "choice"
  /\ \E typed \in SeqsUpTo(ChoiceLines, MaxLines) :
       \E r \in {get_user_choice(typed)} :
         IF r.kind = "eof"
         THEN Leave("unexpected") /\ UNCHANGED choice
         ELSE /\ choice' = r.val
              /\ ipc' = "parameters"
              /\ UNCHANGED runVars
              /\ UNCHANGED nameVars
  /\ UNCHANGED <<parameters, image_path, text_prompt, gcs_bucket, submission>>

\* `parameters = get_generation_parameters()`
GetGenerationParameters ==
  /\ pc = "idle"
  /\ ipc = "parameters"
  /\ \E d \in DurationLines, a \in AspectLines, n \in NegativeLines,
        e \in EnhanceLines :
       parameters' = get_generation_parameters(<<d, a, n, e>>)
  /\ ipc' = IF choice = "1" THEN "prompt" ELSE "image"
  /\ UNCHANGED <<choice, image_path, text_prompt, gcs_bucket, submission>>
  /\ UNCHANGED runVars
  /\ UNCHANGED nameVars

\* `image_path = get_image_path()`, `if not image_path: sys.exit(1)`
GetImagePath ==
  /\ pc = "idle"
  /\ ipc = "image"
  /\ \E typed \in SeqsUpTo(PathLines, MaxLines) :
       \E r \in {get_image_path(typed)} :
         IF r.kind = "eof"
         THEN Leave("unexpected") /\ UNCHANGED image_path
         ELSE IF r.kind = "none" \/ r.val = <<>>
         THEN Leave("no_image") /\ image_path' = r
         ELSE /\ image_path' = r
              /\ ipc' = "prompt"
              /\ UNCHANGED runVars
              /\ UNCHANGED nameVars
  /\ UNCHANGED <<choice, parameters, text_prompt, gcs_bucket, submission>>

\* `prompt = get_text_prompt()`
GetTextPrompt ==
  /\ pc = "idle"
  /\ ipc = "prompt"
  /\ \E f \in ArgvFiles, typed \in SeqsUpTo(PromptLines, MaxLines) :
       \E r \in {get_text_prompt(f, typed)} :
         IF r.kind = "eof"
         THEN Leave("unexpected") /\ UNCHANGED text_prompt
         ELSE /\ text_prompt' = r.val
              /\ ipc' = "submit"
              /\ UNCHANGED runVars
              /\ UNCHANGED nameVars
  /\ UNCHANGED <<choice, parameters, image_path, gcs_bucket, submission>>

\* generate_text_to_video / generate_image_to_video up to the return of
\* client.models.generate_videos
SubmitRequest ==
  /\ pc = "idle"
  /\ ipc = "submit"
  /\ mode' = IF choice = "1" THEN "text" ELSE "image"
  /\ submission' = SubmissionOf(choice, image_path.val, text_prompt, parameters, gcs_bucket)
  /\ requests' = Append(requests, "generate_videos")
  /\ pc' = "loop"
  /\ ipc' = "done"
  /\ UNCHANGED <<client, operation, sleeps, fetches, ret, branch, calls, file,
                 report, exit>>
  /\ UNCHANGED <<choice, parameters, image_path, text_prompt, gcs_bucket>>
  /\ UNCHANGED nameVars

RequestNext ==
  \/ InitializeGenai
  \/ GetUserChoice
  \/ GetGenerationParameters
  \/ GetImagePath
  \/ GetTextPrompt
  \/ SubmitRequest

SpecRequest == RequestInit /\ [][RequestNext]_vars


\* ------------------------------------------------------------------------
\* Vocabulary of the properties
\* ------------------------------------------------------------------------
\* the function has returned after handling a finished operation
Handled == pc = "returned" /\ operation.done
\* ... whose response is non-empty
Completed == Handled /\ operation.response

HasItems == NonEmptyList(operation.result.generated_videos)
FirstItem == operation.result.generated_videos.items[1]
HasVideosList == NonEmptyList(operation.result.videos)
FirstDescriptor == operation.result.videos.items[1]

\* steps 1a and 1b of the classification, read off the payload
Shape1a(it) == it.video.kind = "obj" /\ HasNonEmpty(it.video.video_bytes)
Shape1b(it) == it.video.kind = "obj" /\ HasNonEmpty(it.video.uri)
\* text or raw bytes
IsContent(f) == f.kind \in {"str", "bytes"}

\* exactly one call was made, of this kind and with this argument
OneCall(op, arg) == Len(calls) = 1 /\ calls[1].op = op /\ calls[1].arg = arg
SomeCallFailed == \E i \in 1..Len(calls) : ~calls[i].ret

\* C1: a failed write or download never turns the outcome of a completed
\* job with a non-empty response into a failure: the function returns True.
C1_MaterializationFailureKeepsSuccess ==
  (Completed /\ SomeCallFailed) => ret = "True"

\* C2: with a non-empty generated-items list and a top-level video_data,
\* the top-level video_data is never decoded or written, and what the run
\* does is what the first generated item alone makes it do.
C2_GeneratedItemsWin ==
  (Completed /\ HasItems /\ HasAttr(operation.result.video_data)) =>
     /\ branch # "top_video_data"
     /\ \E env \in Envs :
          AfterLoop(mode,
                    Operation(TRUE, TRUE, Result(List(<<FirstItem>>), AbsentF, NoList)),
                    env)
            = Outcome(ret, branch, calls)

\* C2 happens: item-level video_data was written although the payload also
\* carries a top-level video_data
C2_Witness ==
  /\ Completed /\ HasItems /\ HasAttr(operation.result.video_data)
  /\ branch = "item_video_data"
  /\ Len(calls) = 1 /\ calls[1].ret

\* C3: a first item matching neither 1a nor 1b that carries a video_data
\* (text or bytes) is handled through that video_data; the result is Empty
\* only when the item carries no video_data.
C3_ItemVideoDataUsed ==
  (Completed /\ HasItems /\ ~Shape1a(FirstItem) /\ ~Shape1b(FirstItem)) =>
     /\ IsContent(FirstItem.video_data) => branch = "item_video_data"
     /\ branch \in {"video_neither", "item_nothing"} => ~IsContent(FirstItem.video_data)

\* C4: a first item matching none of 1a, 1b, 1c gives Empty: the function
\* returns True and neither writes nor downloads.
C4_UnmatchedItemIsSuccess ==
  (Completed /\ HasItems /\ ~Shape1a(FirstItem) /\ ~Shape1b(FirstItem)
     /\ ~HasAttr(FirstItem.video_data)) =>
     ret = "True" /\ calls = <<>>

\* C5: no generated items, no top-level video_data, a non-empty videos list
\* whose first descriptor has no non-empty URI: the function returns True
\* and does not download.
C5_VideosWithoutUriIsSuccess ==
  (Completed /\ ~HasItems /\ ~HasAttr(operation.result.video_data)
     /\ HasVideosList
     /\ ~Truthy(FirstDescriptor.gcsUri) /\ ~Truthy(FirstDescriptor.uri)) =>
     ret = "True" /\ calls = <<>>

\* C6: in the videos-list branch the URI downloaded is the first
\* descriptor's gcsUri when that is non-empty, and otherwise its uri when
\* that is non-empty.
C6_UriFallback ==
  (mode = "text" /\ Completed /\ ~HasItems
     /\ ~HasAttr(operation.result.video_data) /\ HasVideosList) =>
     /\ Truthy(FirstDescriptor.gcsUri) => OneCall("download", FirstDescriptor.gcsUri)
     /\ (~Truthy(FirstDescriptor.gcsUri) /\ Truthy(FirstDescriptor.uri)) =>
          OneCall("download", FirstDescriptor.uri)

\* C7: in the first item's video sub-object non-empty bytes win over a URI:
\* with non-empty bytes they are written and nothing is downloaded; with
\* bytes absent or empty and a non-empty URI the URI is downloaded and
\* nothing of the payload is written.
C7_BytesBeforeUri ==
  (Completed /\ HasItems /\ FirstItem.video.kind = "obj") =>
     /\ HasNonEmpty(FirstItem.video.video_bytes) =>
          /\ OneCall("save", FirstItem.video.video_bytes)
          /\ calls[1].ret => file = FileWith(FirstItem.video.video_bytes.val)
     /\ (~HasNonEmpty(FirstItem.video.video_bytes)
           /\ HasNonEmpty(FirstItem.video.uri)) =>
          OneCall("download", FirstItem.video.uri)

\* C7 happens: bytes and URI both non-empty, the bytes are in the file
C7_Witness ==
  /\ Completed /\ HasItems /\ FirstItem.video.kind = "obj"
  /\ HasNonEmpty(FirstItem.video.video_bytes) /\ HasNonEmpty(FirstItem.video.uri)
  /\ OneCall("save", FirstItem.video.video_bytes)
  /\ file = FileWith(FirstItem.video.video_bytes.val)

\* the video_data the run reached: the first item's, or the top-level one
ReachedVideoData ==
  IF branch = "item_video_data" THEN FirstItem.video_data
  ELSE operation.result.video_data
DecodeFails(f) == IsStr(f) /\ ~b64decode(f.val).ok

\* C8: a textual video_data (item-level or top-level) that fails base64
\* decoding makes the function return False; nothing is written.
C8_DecodeFailureIsFailure ==
  (Completed /\ branch \in {"item_video_data", "top_video_data"}
     /\ DecodeFails(ReachedVideoData)) =>
     ret = "False" /\ calls = <<>> /\ file = NoFile

\* C8 happens: a top-level text that does not decode, the function returned
\* False
C8_Witness ==
  /\ Completed /\ branch = "top_video_data"
  /\ DecodeFails(operation.result.video_data)
  /\ ret = "False"

\* the payload hands video_data f to the run: top-level without generated
\* items, or on a first item that has no video sub-object
CarriesVideoData(f) ==
  \/ ~HasItems /\ operation.result.video_data = f
  \/ HasItems /\ FirstItem.video.kind # "obj" /\ FirstItem.video_data = f

\* C9: a payload whose video_data is the base64 text of b, or b as raw
\* bytes, has b passed to the write, and the file then holds exactly b.
C9_RoundTrip ==
  Completed =>
    \A b \in ByteSeqs :
      (CarriesVideoData(StrF(B64Encode(b))) \/ CarriesVideoData(BytesF(b))) =>
         /\ OneCall("save", BytesF(b))
         /\ calls[1].ret => (file = FileWith(b) /\ ret = "True")

\* C9 happens: a base64 text of MaxLen bytes was decoded and written
C9_Witness ==
  /\ Completed
  /\ \E b \in ByteSeqs :
       /\ Len(b) = MaxLen
       /\ CarriesVideoData(StrF(B64Encode(b)))
       /\ file = FileWith(b)
       /\ ret = "True"

\* C10: the first item's video sub-object has only a non-empty URI and the
\* download fails (invalid URI or an exception of the storage layer):
\* download_video_from_gcs returns False without raising and the function
\* returns True.
C10_FailedDownloadIsSuccess ==
  (Completed /\ HasItems /\ FirstItem.video.kind = "obj"
     /\ ~HasNonEmpty(FirstItem.video.video_bytes)
     /\ HasNonEmpty(FirstItem.video.uri)
     /\ \A i \in 1..Len(calls) : ~calls[i].ret) =>
     /\ OneCall("download", FirstItem.video.uri)
     /\ ~calls[1].raised
     /\ ret = "True"

\* C10 happens: the storage layer raised during the download
C10_Witness ==
  /\ Completed /\ HasItems /\ FirstItem.video.kind = "obj"
  /\ ~HasNonEmpty(FirstItem.video.video_bytes)
  /\ OneCall("download", FirstItem.video.uri)
  /\ calls[1].network /\ ~calls[1].ret
  /\ ret = "True"

\* C11: the loop is left with the job done and no response: the function
\* returns False, and nothing is classified, written or downloaded.
C11_NoResponseIsFailure ==
  (Handled /\ ~operation.response) =>
     /\ ret = "False"
     /\ branch = "no_response"
     /\ calls = <<>>
     /\ file = NoFile

\* C11 happens: a job found done without response after a status fetch
C11_Witness ==
  /\ Handled /\ ~operation.response
  /\ fetches > 0
  /\ report = "failed"

\* C12: an exception of client.operations.get ends the run at once as a
\* failure: the function has returned False with the failing fetch as the
\* last request, and nothing is classified, written or downloaded.
C12_PollErrorIsTerminal ==
  branch = "poll_error" =>
     /\ pc = "returned"
     /\ ret = "False"
     /\ requests[Len(requests)] = "get"
     /\ fetches = sleeps
     /\ ~operation.done
     /\ calls = <<>>
     /\ file = NoFile

\* C12 happens: the second status fetch raised
C12_Witness ==
  /\ branch = "poll_error"
  /\ fetches = 2
  /\ ret = "False"

\* C13: an exception raised by the submission or by a status fetch makes
\* the function return False; it never reaches main.
C13_BackendErrorsAreCaught ==
  /\ ret # "raise"
  /\ report # "unexpected"
  /\ branch \in {"submit_error", "poll_error"} =>
       (pc = "returned" /\ ret = "False" /\ report = "failed")

\* C13 happens: generate_image_to_video's submission raised
C13_Witness ==
  /\ branch = "submit_error"
  /\ mode = "image"
  /\ ret = "False"

\* C14: an interrupt while the job is pending ends the run: no status fetch
\* follows, nothing is written or downloaded, no cancellation is requested
\* from the remote service, and main reports the interruption.
C14_InterruptEndsRun ==
  branch = "interrupt" =>
     /\ pc = "exited"
     /\ report = "interrupted"
     /\ ret = "none"
     /\ calls = <<>>
     /\ file = NoFile
     /\ \A i \in 1..Len(requests) : requests[i] \in {"generate_videos", "get"}

\* C14 happens: the interrupt arrived during the sleep after a first fetch
C14_Witness ==
  /\ branch = "interrupt"
  /\ report = "interrupted"
  /\ sleeps = 2 /\ fetches = 1

\* C15: a status fetch happens only after one sleep of its own, and once
\* the operation is seen done there is no further sleep or fetch and the
\* operation stays as it is.
C15_PollerOrdering ==
  [][/\ fetches' # fetches =>
          (fetches' = fetches + 1 /\ sleeps = fetches + 1 /\ sleeps' = sleeps)
     /\ sleeps' # sleeps =>
          (sleeps' = sleeps + 1 /\ sleeps = fetches /\ fetches' = fetches)
     /\ operation.done =>
          (sleeps' = sleeps /\ fetches' = fetches /\ operation' = operation)]_vars

\* C15 happens: a job already done on submission was handled without a
\* sleep or a fetch
C15_Witness ==
  /\ Handled
  /\ sleeps = 0 /\ fetches = 0
  /\ requests = <<"generate_videos">>

\* the shape gs://bucket/key with a non-empty bucket free of "/" and a
\* non-empty key
HasShape(u) ==
  /\ StartsWith(u, GsPrefix)
  /\ \E i \in 7..(Len(u) - 1) : u[i] = "/" /\ \A j \in 6..(i - 1) : u[j] # "/"

\* C16: download_video_from_gcs returns False on every URI that is empty or
\* not of the shape gs://bucket/key, without creating a storage client and
\* without a network call.
C16_MalformedUriFailsFast ==
  \A i \in 1..Len(calls) :
    (calls[i].op = "download" /\ ~HasShape(calls[i].arg.val)) =>
       (~calls[i].ret /\ ~calls[i].client /\ ~calls[i].network)

\* C17: for a URI of the shape gs://B/K the bucket is the text between the
\* prefix and the first "/", the key everything after that "/".
C17_BucketAndKey ==
  \A i \in 1..Len(calls) :
    (calls[i].op = "download" /\ HasShape(calls[i].arg.val)) =>
       /\ calls[i].client
       /\ \A j \in 1..Len(calls[i].bucket) : calls[i].bucket[j] # "/"
       /\ calls[i].arg.val = GsPrefix \o calls[i].bucket \o <<"/">> \o calls[i].blob

\* C17 happens: a key that holds a "/" itself
C17_Witness ==
  /\ Len(calls) = 1
  /\ calls[1].op = "download"
  /\ calls[1].bucket = <<"b">>
  /\ calls[1].blob = <<"d", "/", "k">>

\* C18: when initialize_genai returns no client the program ends before any
\* submission or polling.
C18_NoClientNoSubmission ==
  client = "none" =>
     /\ pc = "exited"
     /\ exit = "1"
     /\ mode = "none"
     /\ requests = <<>>
     /\ sleeps = 0 /\ fetches = 0

\* C18 happens: the process has ended for want of a client
C18_Witness ==
  /\ client = "none"
  /\ pc = "exited"
  /\ exit = "1"

\* what the caller of the function, and the user, get to see of a run
CallerView == [ret |-> ret, report |-> report]
\* ... after a failed submission
SubmitFailureView == [ret |-> "False", report |-> ReportOf("False")]

\* C19: a failed run tells which phase failed: a polling error, a decode
\* error and a failed write or download each look different to the caller
\* from a failed submission.
C19_PhaseIdentified ==
  (\/ branch = "poll_error"
   \/ /\ Completed /\ branch \in {"item_video_data", "top_video_data"}
      /\ DecodeFails(ReachedVideoData)
   \/ Completed /\ SomeCallFailed /\ ret # "True") =>
     CallerView # SubmitFailureView

\* a filename: at most 30 letters, digits, "-" and "_", then "_", the
\* date in 8 digits, "_", the time in 6 digits, and ".mp4"
WellFormedName(n) ==
  /\ Len(n) >= 20
  /\ LET k == Len(n) - 20
     IN /\ k <= 30
        /\ \A i \in 1..k : IsAlnum(n[i]) \/ n[i] \in {"-", "_"}
        /\ n[k + 1] = "_"
        /\ \A i \in (k + 2)..(k + 9) : IsDigit(n[i])
        /\ n[k + 10] = "_"
        /\ \A i \in (k + 11)..(k + 16) : IsDigit(n[i])
        /\ SubSeq(n, k + 17, k + 20) = <<".", "m", "p", "4">>

\* C20: two calls of generate_filename with one seed, at least one second
\* apart, return different names; a seed of disallowed characters only
\* gives the timestamp stem and the extension; the prefix taken from the
\* seed is never longer than 30 characters.
C20_Filenames ==
  /\ name1 # <<>> =>
       /\ WellFormedName(name1)
       /\ (\A i \in 1..Len(seed) : ~IsAlnum(seed[i]) /\ seed[i] \notin {" ", "-", "_"})
            => Len(name1) = 20
  /\ name2 # <<>> =>
       /\ WellFormedName(name2)
       /\ SecondsApart(now1, now2, 1) => name1 # name2

\* what a caller and the disk see of the handling of a finished operation
Effect(o) == [ret |-> o.ret, calls |-> o.calls]

\* C22: for every payload of a finished operation and every behaviour of
\* the disk and of the storage, generate_text_to_video and
\* generate_image_to_video return the same value and make the same call of
\* save_video_data or download_video_from_gcs.
C22_SharedHandling ==
  Handled =>
    \A env \in Envs :
      Effect(AfterLoop("text", operation, env))
        = Effect(AfterLoop("image", operation, env))

\* number of client.models.generate_videos requests sent
Submissions ==
  Cardinality({i \in 1..Len(requests) : requests[i] = "generate_videos"})

\* C23: a run submits once and calls save_video_data or
\* download_video_from_gcs at most once, and only in the step that leaves
\* the poll loop with the operation done and a non-empty response.
C23_SingleAttempts ==
  [][/\ Submissions' <= 1
     /\ mode' # "none" => Submissions' = 1
     /\ Len(calls') <= 1
     /\ calls' # calls =>
          /\ pc = "loop" /\ operation.done /\ operation.response
          /\ calls = <<>>
          /\ requests' = requests]_vars

\* C23 happens: one submission, two status fetches, one download
C23_Witness ==
  /\ pc = "returned"
  /\ Submissions = 1
  /\ fetches = 2
  /\ Len(calls) = 1
  /\ calls[1].op = "download"

\* C24: once submitted, a run whose job gets done or whose status fetch
\* raises comes to its end; and the loop has no bound of its own: while the
\* operation is not done the sleep and the fetch stay possible whatever the
\* number of fetches made, and only a done operation or a raising fetch ends
\* the loop.
C24_Termination ==
  /\ (pc \in {"loop", "slept"}) ~> (pc \in {"returned", "exited"})
  /\ []((pc = "loop" /\ ~operation.done) => ENABLED Sleep)
  /\ []((pc = "slept") => ENABLED (Fetch \/ FetchFails))
  /\ [][(pc \in {"loop", "slept"} /\ pc' = "returned") =>
          (operation.done \/ branch' = "poll_error")]_vars

\* C24 happens: a job that was pending for as many fetches as the remote
\* service allows, then done, and handled
C24_Witness ==
  /\ pc = "returned"
  /\ operation.done
  /\ fetches = MaxPolls + 1
  /\ sleeps = fetches

\* C21: generate_image_to_video is called only with a path for which
\* os.path.exists was true; when get_image_path hands back None, main leaves
\* with status 1 and nothing is submitted.
C21_ImageExists ==
  /\ (choice = "2" /\ ipc \in {"prompt", "submit"}) =>
       (image_path.kind = "path" /\ image_path.val \in Existing)
  /\ (mode = "image" /\ submission # NoSubmission) =>
       (image_path.kind = "path" /\ image_path.val \in Existing)
  /\ image_path.kind = "none" =>
       (pc = "exited" /\ exit = "1" /\ requests = <<>> /\ submission = NoSubmission)

\* C21 happens: an image submission, and the path is one that was found
C21_Witness ==
  /\ mode = "image"
  /\ submission # NoSubmission
  /\ image_path.val = <<"A", ".", "P", "N", "G">>
  /\ submission.image.mime_type = "image/png"

\* the submission main would make had one answer been another
WithParameters(params) ==
  SubmissionOf(choice, image_path.val, text_prompt, params, gcs_bucket)

\* C25: the generate_videos call carries the duration, the aspect ratio,
\* the negative prompt, the enhance-prompt flag and, for an image request,
\* the image: a request that differs in one of them gives another
\* submission; and output_gcs_uri is set exactly when GCS_BUCKET is.
C25_WholeRequest ==
  submission # NoSubmission =>
    /\ \A d \in 5..8 :
         d # parameters.duration =>
           WithParameters([parameters EXCEPT !.duration = d]) # submission
    /\ \A a \in {Landscape, Portrait} :
         a # parameters.aspect_ratio =>
           WithParameters([parameters EXCEPT !.aspect_ratio = a]) # submission
    /\ \A n \in {NullF, StrF(<<"f", "o", "g">>)} :
         n # parameters.negative_prompt =>
           WithParameters([parameters EXCEPT !.negative_prompt = n]) # submission
    /\ WithParameters([parameters EXCEPT !.enhance_prompt = ~@]) # submission
    /\ choice = "2" =>
         \A q \in Existing :
           q # image_path.val =>
             SubmissionOf(choice, q, text_prompt, parameters, gcs_bucket) # submission
    /\ (submission.config.output_gcs_uri.kind = "str") <=> Truthy(gcs_bucket)

====
